---------------------------- MODULE Spec2Model ----------------------------
(***************************************************************************)
(* Model of palworld_save_pal/ws/handlers/save_file_handler.py: the four   *)
(* websocket handlers (load save file, load zip file, update, download)    *)
(* running for two connections against the application state returned by  *)
(* get_app_state().                                                        *)
(*                                                                         *)
(* A handler is a coroutine: the code between two awaits runs atomically,  *)
(* so every action below is one such block.  The except clause of a        *)
(* handler runs in the block of the statement that raised.                 *)
(***************************************************************************)
EXTENDS Integers, Sequences, FiniteSets, TLC

(* ------------------------------ bounds -------------------------------- *)
\* progress callbacks one Save Engine call makes at most
MaxProgress == 1
\* two connections served by the same process: connection 1 sends every
\* kind of message, connection 2 is a second client uploading save files
Conns == {1, 2}
Editors == {1}
\* object identities of save handles; enough for the session reference and
\* one local reference per connection
Objs == {1, 2, 3}
None == 0

(* --------------------------- text helpers ----------------------------- *)
\* A text is a sequence of one-character strings.
Slash == "/"
Dot == "."

RECURSIVE Rep(_, _)
Rep(ch, n) == IF n = 0 THEN << >> ELSE <<ch>> \o Rep(ch, n - 1)

\* str.startswith
StartsWith(s, p) == Len(s) >= Len(p) /\ SubSeq(s, 1, Len(p)) = p
\* str.endswith
EndsWith(s, p) == Len(s) >= Len(p) /\ SubSeq(s, Len(s) - Len(p) + 1, Len(s)) = p

\* s.split("/")[0]
FirstSegment(s) ==
    IF \E i \in 1..Len(s) : s[i] = Slash
    THEN LET i == CHOOSE j \in 1..Len(s) :
                      s[j] = Slash /\ \A k \in 1..(j - 1) : s[k] # Slash
         IN SubSeq(s, 1, i - 1)
    ELSE s

\* os.path.basename
Basename(s) ==
    IF \E i \in 1..Len(s) : s[i] = Slash
    THEN LET i == CHOOSE j \in 1..Len(s) :
                      s[j] = Slash /\ \A k \in (j + 1)..Len(s) : s[k] # Slash
         IN SubSeq(s, i + 1, Len(s))
    ELSE s

\* os.path.splitext(name)[0] for a name without separators: the extension
\* starts at the last dot, unless only dots precede it
SplitExtStem(name) ==
    IF \E i \in 1..Len(name) : name[i] = Dot
    THEN LET i == CHOOSE j \in 1..Len(name) :
                      name[j] = Dot /\ \A k \in (j + 1)..Len(name) : name[k] # Dot
         IN IF \E k \in 1..(i - 1) : name[k] # Dot
            THEN SubSeq(name, 1, i - 1)
            ELSE name
    ELSE name

HexLower == {"0","1","2","3","4","5","6","7","8","9","a","b","c","d","e","f"}
HexUpper == {"A","B","C","D","E","F"}
Lower(ch) ==
    CASE ch = "A" -> "a" [] ch = "B" -> "b" [] ch = "C" -> "c"
      [] ch = "D" -> "d" [] ch = "E" -> "e" [] ch = "F" -> "f"
      [] OTHER -> ch

RECURSIVE StripLeft(_, _)
StripLeft(s, cs) ==
    IF s # << >> /\ Head(s) \in cs THEN StripLeft(Tail(s), cs) ELSE s
RECURSIVE StripRight(_, _)
StripRight(s, cs) ==
    IF s # << >> /\ s[Len(s)] \in cs
    THEN StripRight(SubSeq(s, 1, Len(s) - 1), cs) ELSE s

UuidHexLen == 32
\* the hexadecimal digits uuid.UUID(hex) reads: braces stripped, hyphens
\* removed
UuidDigits(hex) ==
    LET stripped == StripRight(StripLeft(hex, {"{", "}"}), {"{", "}"})
    IN SelectSeq(stripped, LAMBDA ch : ch # "-")
\* uuid.UUID(hex) raises ValueError unless it reads 32 hexadecimal digits
ValidUuid(hex) ==
    /\ Len(UuidDigits(hex)) = UuidHexLen
    /\ \A i \in 1..UuidHexLen : UuidDigits(hex)[i] \in HexLower \cup HexUpper
\* the value of uuid.UUID(hex): the digits as one integer, so letter case
\* is not significant
UUID(hex) == [i \in 1..Len(UuidDigits(hex)) |-> Lower(UuidDigits(hex)[i])]
\* str(uuid): 8-4-4-4-12
UuidStr(u) ==
    SubSeq(u, 1, 8) \o <<"-">> \o SubSeq(u, 9, 12) \o <<"-">> \o SubSeq(u, 13, 16)
        \o <<"-">> \o SubSeq(u, 17, 20) \o <<"-">> \o SubSeq(u, 21, 32)

\* base64.b64encode(b).decode("utf-8"): the text as alphabet indices
\* 0..63, 64 for the padding character
RECURSIVE B64Encode(_)
B64Encode(b) ==
    IF Len(b) = 0 THEN << >>
    ELSE IF Len(b) = 1
    THEN << b[1] \div 4, (b[1] % 4) * 16, 64, 64 >>
    ELSE IF Len(b) = 2
    THEN << b[1] \div 4, (b[1] % 4) * 16 + (b[2] \div 16), (b[2] % 16) * 4, 64 >>
    ELSE << b[1] \div 4, (b[1] % 4) * 16 + (b[2] \div 16),
            (b[2] % 16) * 4 + (b[3] \div 64), b[3] % 64 >>
         \o B64Encode(SubSeq(b, 4, Len(b)))

(* ------------------------------ inputs -------------------------------- *)
\* LOAD_SAVE_FILE payloads (bytes)
SaveInputs == { <<80, 108>>, <<80>> }

SaveId == <<"S", "1">>
LevelSavName == <<"L","e","v","e","l",".","s","a","v">>
PlayersDir == <<"P","l","a","y","e","r","s">>
SavExt == <<".","s","a","v">>
PlayerPath(stem) == SaveId \o <<Slash>> \o PlayersDir \o <<Slash>> \o stem \o SavExt
LevelPath == SaveId \o <<Slash>> \o LevelSavName
Uuid1 == Rep("1", 8) \o <<"-">> \o Rep("1", 4) \o <<"-">> \o Rep("1", 4)
            \o <<"-">> \o Rep("1", 4) \o <<"-">> \o Rep("1", 12)
Uuid2 == Rep("a", 32)
\* the same UUID as Uuid2, spelled in upper case
Uuid2Upper == Rep("A", 32)
Bogus == <<"b","o","g","u","s">>
Entry(name, body) == [name |-> name, body |-> body]

\* LOAD_ZIP_FILE payloads: well-formed archives, given by their entries in
\* listing order
ZipInputs ==
    { << >>,
      << Entry(PlayerPath(Bogus), <<7>>) >>,
      << Entry(LevelPath, <<80, 9>>), Entry(PlayerPath(Uuid1), <<1>>) >>,
      << Entry(LevelPath, <<80, 9>>), Entry(PlayerPath(Uuid1), <<1>>),
         Entry(PlayerPath(Bogus), <<7>>) >>,
      << Entry(LevelPath, <<80, 9>>), Entry(PlayerPath(Bogus), <<7>>),
         Entry(PlayerPath(Uuid2), <<2>>) >>,
      << Entry(LevelPath, <<80, 9>>), Entry(PlayerPath(Uuid2), <<2>>),
         Entry(PlayerPath(Uuid2Upper), <<3>>) >> }

\* UpdateSaveFileMessage.data.modified_pals / modified_players: 0 is an
\* empty or absent patch set, 1 a non-empty one
Patches == {0, 1}

(* ---------------------- zip archive and dict -------------------------- *)
\* ZipFile.namelist()
NameList(zip) == [i \in 1..Len(zip) |-> zip[i].name]
\* "x in file_list"
InList(x, list) == \E i \in 1..Len(list) : list[i] = x
\* ZipFile.read(name): the last entry of that name
ZipRead(zip, name) ==
    LET i == CHOOSE j \in 1..Len(zip) :
                 zip[j].name = name /\ \A k \in (j + 1)..Len(zip) : zip[k].name # name
    IN zip[i].body
\* d[k] = v on an insertion-ordered dict, kept as a sequence of items
DictSet(d, k, v) ==
    IF \E i \in 1..Len(d) : d[i].key = k
    THEN [i \in 1..Len(d) |-> IF d[i].key = k THEN [key |-> k, body |-> v] ELSE d[i]]
    ELSE Append(d, [key |-> k, body |-> v])

(* -------------------- Save Engine and AppState ------------------------ *)
\* A save handle (SaveFile object).  pals and plrs are the patch sets last
\* applied to it, 0 when none was.
FreeSlot == [name |-> << >>, size |-> 0, level |-> << >>, players |-> << >>,
             pals |-> 0, plrs |-> 0, live |-> FALSE]
HostKey == Rep("0", 32)

\* the handle AppState.process_save_file(data, cb) installs
IngestSingle(bytes) ==
    [name |-> LevelSavName, size |-> Len(bytes), level |-> bytes,
     players |-> << >>, pals |-> 0, plrs |-> 0, live |-> TRUE]
\* the handle AppState.process_save_files(save_id, level, player_data, cb)
\* installs
IngestBundle(save_id, level, player_data) ==
    [name |-> save_id, size |-> Len(level), level |-> level,
     players |-> player_data, pals |-> 0, plrs |-> 0, live |-> TRUE]
\* SaveFile.get_players(): the entity listing, in the engine's order
GetPlayers(h) ==
    LET keys == <<HostKey>> \o [i \in 1..Len(h.players) |-> h.players[i].key]
    IN [i \in 1..Len(keys) |-> [uid |-> keys[i], pals |-> h.pals, rev |-> h.plrs]]
\* SaveFile.update_pals(modified_pals, cb), SaveFile.update_players(...)
UpdatePals(h, p) == [h EXCEPT !.pals = p]
UpdatePlayers(h, p) == [h EXCEPT !.plrs = p]
\* SaveFile.sav(): the binary form; lossless on an unpatched handle
Sav(h) ==
    h.level \o (IF h.pals = 0 THEN << >> ELSE <<h.pals>>)
            \o (IF h.plrs = 0 THEN << >> ELSE <<h.plrs>>)

\* jsonable_encoder(app_state.players): UUID keys become their str() form
JsonableEncoder(players) ==
    [i \in 1..Len(players) |->
        [key |-> UuidStr(players[i].uid), pals |-> players[i].pals,
         rev |-> players[i].rev]]

(* ------------------------------ state --------------------------------- *)
VARIABLES
    app_state,  \* get_app_state(): [save_file, players], one per process
    heap,       \* the SaveFile objects, by identity
    pc,         \* per connection: "idle", the await its handler is at, or
                \* "done" when the handler has just returned or raised
    msg,        \* per connection: the inbound message being handled
    save_file,  \* per connection: the handler's local save_file
    data,       \* per connection: the handler's local data / sav_file
    out,        \* per connection: envelopes passed to ws.send_json by the
                \* current (or last) invocation; ok = the write succeeded
    calls,      \* per connection: Save Engine calls of that invocation
    nprog,      \* per connection: progress callbacks of the running call
    result,     \* per connection: "none" while running, then "ok",
                \* "error" (ERROR written) or "raised" (exception left the
                \* handler)
    wrote       \* per connection: that invocation changed Session State

vars == <<app_state, heap, pc, msg, save_file, data, out, calls, nprog, result, wrote>>

NoMsg == [type |-> "NONE"]
NoData == [empty |-> TRUE]

Init ==
    /\ app_state = [save_file |-> None, players |-> << >>]
    /\ heap = [o \in Objs |-> FreeSlot]
    /\ pc = [c \in Conns |-> "idle"]
    /\ msg = [c \in Conns |-> NoMsg]
    /\ save_file = [c \in Conns |-> None]
    /\ data = [c \in Conns |-> NoData]
    /\ out = [c \in Conns |-> << >>]
    /\ calls = [c \in Conns |-> << >>]
    /\ nprog = [c \in Conns |-> 0]
    /\ result = [c \in Conns |-> "none"]
    /\ wrote = [c \in Conns |-> FALSE]

\* Session State as a client can tell it: the handle, its content, the listing
SessionView(as, hp) ==
    [save_file |-> as.save_file,
     handle |-> IF as.save_file = None THEN FreeSlot ELSE hp[as.save_file],
     players |-> as.players]

\* objects no reference reaches are released
Collect(hp, refs) == [o \in Objs |-> IF o \in refs THEN hp[o] ELSE FreeSlot]
\* the identity of a newly constructed SaveFile
NewObj ==
    LET used == {app_state.save_file} \cup {save_file[c] : c \in Conns}
    IN CHOOSE o \in Objs : o \notin used /\ \A p \in Objs : p \notin used => o <= p

(* ----------------------------- envelopes ------------------------------ *)
\* build_response(type, data), with the outcome of its ws.send_json
Env(t, d, ok) == [type |-> t, data |-> d, ok |-> ok]
NumProgress(o) == Len(SelectSeq(o, LAMBDA e : e.type = "PROGRESS_MESSAGE"))
\* the envelope ws_callback(text) builds; n is the number of the call
ProgressData(o, text) == [n |-> NumProgress(o) + 1, text |-> text]
\* variant: the progress envelope overtakes the envelopes already sent
WsCallback_Front(o, text, ok) ==
    <<Env("PROGRESS_MESSAGE", ProgressData(o, text), ok)>> \o o
\* ws_callback(text) passes the envelope to ws.send_json at once
WsCallback(o, text, ok) == Append(o, Env("PROGRESS_MESSAGE", ProgressData(o, text), ok))

ErrData(prefix, text, files) == [prefix |-> prefix, text |-> text, files |-> files]
EngineError == "EngineError"
TransportError == "TransportError"
EncodeError == "EncodeError"
NoSaveLoaded == "No save file loaded"
ZipEmpty == "Zip file is empty"
IndexError == "list index out of range"
NoLevelSav == "Zip file does not contain 'Level.sav', available files: "
BadUuid == "badly formed hexadecimal UUID string"

\* the step of connection c: its next position, envelopes, engine calls,
\* outcome, the application state and heap it leaves, its locals
Commit(c, npc, o, cl, res, as, hp, sf, dt, np) ==
    /\ \A d \in Conns : pc[d] # "done"
    /\ pc' = [pc EXCEPT ![c] = npc]
    /\ out' = [out EXCEPT ![c] = o]
    /\ calls' = [calls EXCEPT ![c] = cl]
    /\ result' = [result EXCEPT ![c] = res]
    /\ app_state' = as
    /\ save_file' = [save_file EXCEPT ![c] = sf]
    /\ heap' = Collect(hp, {as.save_file} \cup {save_file'[d] : d \in Conns})
    /\ data' = [data EXCEPT ![c] = IF npc = "done" THEN NoData ELSE dt]
    /\ nprog' = [nprog EXCEPT ![c] = np]
    /\ wrote' = [wrote EXCEPT ![c] =
                    (IF pc[c] = "idle" THEN FALSE ELSE @)
                    \/ SessionView(as, hp) # SessionView(app_state, heap)]

\* variant: the except clause logs the failure and sends nothing
Except_Silent(c, o, cl, prefix, text, files, as, hp) ==
    Commit(c, "done", o, cl, "error", as, hp, None, data[c], 0)
\* "except Exception as e": one ERROR envelope carrying str(e) is passed to
\* ws.send_json; if that write fails the exception leaves the handler
Except(c, o, cl, prefix, text, files, as, hp) ==
    \E okE \in BOOLEAN :
        Commit(c, "done", Append(o, Env("ERROR", ErrData(prefix, text, files), okE)),
               cl, IF okE THEN "error" ELSE "raised", as, hp, None, data[c], 0)

\* an awaited write inside the try block: oOk / oFail are the envelopes
\* after a successful / failed write; then the handler continues at npc
\* (it returns when npc is "done")
Await(c, oOk, oFail, npc, cl, as, hp, sf, dt, prefix) ==
    \E okS \in BOOLEAN :
        IF okS
        THEN Commit(c, npc, oOk, cl, IF npc = "done" THEN "ok" ELSE "none", as, hp,
                    IF npc = "done" THEN None ELSE sf, dt, 0)
        ELSE Except(c, oFail, cl, prefix, TransportError, << >>, as, hp)
\* "await ws.send_json(build_response(t, d))"
Send(c, o, t, d, npc, cl, as, hp, sf, dt, prefix) ==
    Await(c, Append(o, Env(t, d, TRUE)), Append(o, Env(t, d, FALSE)),
          npc, cl, as, hp, sf, dt, prefix)
\* "await ws_callback(text)" in a handler body
Progress(c, o, text, npc, cl, as, hp, sf, dt, prefix) ==
    Await(c, WsCallback(o, text, TRUE), WsCallback(o, text, FALSE),
          npc, cl, as, hp, sf, dt, prefix)

Call(op) == [op |-> op]
Returned(op) == [op |-> op, ok |-> TRUE]
Failed(op) == [op |-> op, ok |-> FALSE]

(* ---------------------- load_save_file_handler ------------------------ *)
LoadPrefix == "Error processing file: "
LoadDoneText == "File uploaded and processed successfully, results coming right up!"

\* variant: the session is emptied when a load begins
LoadSaveFile_Reset(c, bytes) ==
    /\ pc[c] = "idle"
    /\ msg' = [msg EXCEPT ![c] = [type |-> "LOAD_SAVE_FILE", bytes |-> bytes]]
    /\ Commit(c, "ingest", << >>, <<Call("process_save_file")>>, "none",
              [save_file |-> None, players |-> << >>], heap, None, NoData, 0)
\* lines 30-33: up to the first await inside process_save_file
LoadSaveFile(c, bytes) ==
    /\ pc[c] = "idle"
    /\ msg' = [msg EXCEPT ![c] = [type |-> "LOAD_SAVE_FILE", bytes |-> bytes]]
    /\ Commit(c, "ingest", << >>, <<Call("process_save_file")>>, "none",
              app_state, heap, None, NoData, 0)

\* lines 33-41: process_save_file returns or raises; on return the summary
\* is read from app_state.save_file and the closing progress text is sent
LoadIngested(c) ==
    /\ pc[c] = "ingest"
    /\ UNCHANGED msg
    /\ \E okE \in BOOLEAN :
        IF okE
        THEN LET o == NewObj
                 h == IngestSingle(msg[c].bytes)
                 hp == [heap EXCEPT ![o] = h]
                 as == [save_file |-> o, players |-> GetPlayers(h)]
                 dt == [name |-> hp[as.save_file].name, size |-> hp[as.save_file].size]
                 cl == Append(calls[c], Returned("process_save_file"))
             IN Progress(c, out[c], LoadDoneText, "load_cb", cl, as, hp, None, dt, LoadPrefix)
        ELSE Except(c, out[c], Append(calls[c], Failed("process_save_file")),
                    LoadPrefix, EngineError, << >>, app_state, heap)

\* lines 42-43
LoadSendSummary(c) ==
    /\ pc[c] = "load_cb"
    /\ UNCHANGED msg
    /\ Send(c, out[c], "LOAD_SAVE_FILE", data[c], "load_sent", calls[c],
            app_state, heap, None, data[c], LoadPrefix)

\* lines 44-46
LoadSendPlayers(c) ==
    /\ pc[c] = "load_sent"
    /\ UNCHANGED msg
    /\ \E okJ \in BOOLEAN :
        IF okJ
        THEN Send(c, out[c], "GET_PLAYERS", [players |-> JsonableEncoder(app_state.players)],
                  "done", calls[c], app_state, heap, None, data[c], LoadPrefix)
        ELSE Except(c, out[c], calls[c], LoadPrefix, EncodeError, << >>, app_state, heap)

(* ------------------ progress from the Save Engine --------------------- *)
EnginePcs == {"ingest", "ingest_zip", "pals", "players"}
ErrPrefix(type) ==
    CASE type = "LOAD_SAVE_FILE" -> LoadPrefix
      [] type = "UPDATE_SAVE_FILE" -> "Error processing changes: "
      [] type = "DOWNLOAD_SAVE_FILE" -> "Error downloading file: "
      [] type = "LOAD_ZIP_FILE" -> "Error processing zip file: "
EngineText == "working"

\* the running Save Engine call awaits ws_callback (lines 26-28, 58-60,
\* 132-134); a failed write raises through the call into the handler
EngineProgress(c) ==
    /\ pc[c] \in EnginePcs
    /\ nprog[c] < MaxProgress
    /\ UNCHANGED msg
    /\ \E okS \in BOOLEAN :
        IF okS
        THEN Commit(c, pc[c], WsCallback(out[c], EngineText, TRUE), calls[c], "none",
                    app_state, heap, save_file[c], data[c], nprog[c] + 1)
        ELSE Except(c, WsCallback(out[c], EngineText, FALSE),
                    Append(calls[c], Failed(calls[c][Len(calls[c])].op)),
                    ErrPrefix(msg[c].type), TransportError, << >>, app_state, heap)

(* --------------------- update_save_file_handler ----------------------- *)
UpdatePrefix == "Error processing changes: "
\* line 72: "not save_file"
NotSaveFile(sf) == sf = None

\* lines 80-82: the listing is recomputed from the local save_file and
\* stored, then the acknowledgment is sent
UpdateStore(c, o, cl, hp, sf) ==
    Send(c, o, "UPDATE_SAVE_FILE", [ack |-> "Changes saved"], "upd_sent",
         Append(cl, Call("get_players")),
         [app_state EXCEPT !.players = GetPlayers(hp[sf])], hp, sf, data[c], UpdatePrefix)

\* variant: update_players is called whether or not there is a players patch
UpdateAfterPals_Always(c, o, cl, hp, sf, modified_players) ==
    Commit(c, "players", o, Append(cl, Call("update_players")), "none",
           app_state, hp, sf, data[c], 0)
\* lines 77-78, then 80-82 when there is no players patch
UpdateAfterPals(c, o, cl, hp, sf, modified_players) ==
    IF modified_players # 0
    THEN Commit(c, "players", o, Append(cl, Call("update_players")), "none",
                app_state, hp, sf, data[c], 0)
    ELSE UpdateStore(c, o, cl, hp, sf)

\* lines 62-76: up to the first await
UpdateSaveFile(c, modified_pals, modified_players) ==
    /\ pc[c] = "idle"
    /\ msg' = [msg EXCEPT ![c] = [type |-> "UPDATE_SAVE_FILE",
                                  modified_pals |-> modified_pals,
                                  modified_players |-> modified_players]]
    /\ LET sf == app_state.save_file
       IN IF NotSaveFile(sf)
          THEN Except(c, << >>, << >>, UpdatePrefix, NoSaveLoaded, << >>, app_state, heap)
          ELSE IF modified_pals # 0
          THEN Commit(c, "pals", << >>, <<Call("update_pals")>>, "none",
                      app_state, heap, sf, NoData, 0)
          ELSE UpdateAfterPals(c, << >>, << >>, heap, sf, modified_players)

\* line 76 returns or raises; a failed call leaves the handle as the
\* engine left it, patched or not
UpdatePalsDone(c) ==
    /\ pc[c] = "pals"
    /\ UNCHANGED msg
    /\ LET sf == save_file[c]
           patched == [heap EXCEPT ![sf] = UpdatePals(@, msg[c].modified_pals)]
       IN \E okE \in BOOLEAN :
           IF okE
           THEN UpdateAfterPals(c, out[c], Append(calls[c], Returned("update_pals")),
                                patched, sf, msg[c].modified_players)
           ELSE \E hp \in {heap, patched} :
                   Except(c, out[c], Append(calls[c], Failed("update_pals")),
                          UpdatePrefix, EngineError, << >>, app_state, hp)

\* line 78 returns or raises
UpdatePlayersDone(c) ==
    /\ pc[c] = "players"
    /\ UNCHANGED msg
    /\ LET sf == save_file[c]
           patched == [heap EXCEPT ![sf] = UpdatePlayers(@, msg[c].modified_players)]
       IN \E okE \in BOOLEAN :
           IF okE
           THEN UpdateStore(c, out[c], Append(calls[c], Returned("update_players")),
                            patched, sf)
           ELSE \E hp \in {heap, patched} :
                   Except(c, out[c], Append(calls[c], Failed("update_players")),
                          UpdatePrefix, EngineError, << >>, app_state, hp)

\* lines 83-85
UpdateSendPlayers(c) ==
    /\ pc[c] = "upd_sent"
    /\ UNCHANGED msg
    /\ \E okJ \in BOOLEAN :
        IF okJ
        THEN Send(c, out[c], "GET_PLAYERS", [players |-> JsonableEncoder(app_state.players)],
                  "done", calls[c], app_state, heap, save_file[c], data[c], UpdatePrefix)
        ELSE Except(c, out[c], calls[c], UpdatePrefix, EncodeError, << >>, app_state, heap)

(* -------------------- download_save_file_handler ---------------------- *)
DownloadPrefix == "Error downloading file: "

\* variant: the first progress text is sent before the save file is checked
DownloadSaveFile_ProgressFirst(c) ==
    /\ pc[c] = "idle"
    /\ msg' = [msg EXCEPT ![c] = [type |-> "DOWNLOAD_SAVE_FILE"]]
    /\ LET sf == app_state.save_file
           o == WsCallback(<< >>, "Compressing GVAS to sav", TRUE)
       IN IF NotSaveFile(sf)
          THEN Except(c, o, << >>, DownloadPrefix, NoSaveLoaded, << >>, app_state, heap)
          ELSE Commit(c, "dl_sav", o, << >>, "none", app_state, heap, sf, NoData, 0)
\* lines 102-108
DownloadSaveFile(c) ==
    /\ pc[c] = "idle"
    /\ msg' = [msg EXCEPT ![c] = [type |-> "DOWNLOAD_SAVE_FILE"]]
    /\ LET sf == app_state.save_file
       IN IF NotSaveFile(sf)
          THEN Except(c, << >>, << >>, DownloadPrefix, NoSaveLoaded, << >>, app_state, heap)
          ELSE Progress(c, << >>, "Compressing GVAS to sav", "dl_sav", << >>,
                        app_state, heap, sf, NoData, DownloadPrefix)

\* variant: the session's listing is dropped while the file is serialised
DownloadSav_Clears(c) ==
    /\ pc[c] = "dl_sav"
    /\ UNCHANGED msg
    /\ \E okE \in BOOLEAN :
        IF okE
        THEN Progress(c, out[c], "Encoding sav file to base64", "dl_enc",
                      calls[c] \o <<Call("sav"), Returned("sav")>>,
                      [app_state EXCEPT !.players = << >>], heap,
                      save_file[c], [sav_file |-> Sav(heap[save_file[c]])], DownloadPrefix)
        ELSE Except(c, out[c], calls[c] \o <<Call("sav"), Failed("sav")>>,
                    DownloadPrefix, EngineError, << >>, app_state, heap)
\* lines 109-110
DownloadSav(c) ==
    /\ pc[c] = "dl_sav"
    /\ UNCHANGED msg
    /\ \E okE \in BOOLEAN :
        IF okE
        THEN Progress(c, out[c], "Encoding sav file to base64", "dl_enc",
                      calls[c] \o <<Call("sav"), Returned("sav")>>, app_state, heap,
                      save_file[c], [sav_file |-> Sav(heap[save_file[c]])], DownloadPrefix)
        ELSE Except(c, out[c], calls[c] \o <<Call("sav"), Failed("sav")>>,
                    DownloadPrefix, EngineError, << >>, app_state, heap)

\* variant: the encoding step is skipped and the raw bytes are sent
DownloadSend_Raw(c) ==
    /\ pc[c] = "dl_enc"
    /\ UNCHANGED msg
    /\ Send(c, out[c], "DOWNLOAD_SAVE_FILE",
            [name |-> LevelSavName, content |-> data[c].sav_file],
            "done", calls[c], app_state, heap, save_file[c], data[c], DownloadPrefix)
\* lines 111-118
DownloadSend(c) ==
    /\ pc[c] = "dl_enc"
    /\ UNCHANGED msg
    /\ Send(c, out[c], "DOWNLOAD_SAVE_FILE",
            [name |-> LevelSavName, content |-> B64Encode(data[c].sav_file)],
            "done", calls[c], app_state, heap, save_file[c], data[c], DownloadPrefix)

(* ----------------------- load_zip_file_handler ------------------------ *)
ZipPrefix == "Error processing zip file: "
ZipDoneText == "Zip file uploaded and processed successfully, results coming right up!"

\* line 142: "file_list is None"; namelist() returns a list, never None
FileListIsNone(file_list) == FALSE
\* line 145
SaveIdOf(file_list) == FirstSegment(file_list[1])
\* line 146
LevelSavOf(save_id) == save_id \o <<Slash>> \o LevelSavName
\* variant: the message does not show the listing
AvailableFiles_None(file_list) == << >>
\* lines 149-151: the list the message shows
AvailableFiles(file_list) == file_list
\* lines 156-160
PlayerFiles(file_list, save_id) ==
    SelectSeq(file_list,
              LAMBDA f : /\ StartsWith(f, save_id \o <<Slash>> \o PlayersDir \o <<Slash>>)
                         /\ EndsWith(f, SavExt))
\* line 163
PlayerId(player_file) == SplitExtStem(Basename(player_file))
\* lines 161-165, when every uuid.UUID(player_id) succeeds
RECURSIVE PlayerData(_, _, _)
PlayerData(zip, player_files, player_data) ==
    IF player_files = << >> THEN player_data
    ELSE PlayerData(zip, Tail(player_files),
                    DictSet(player_data, UUID(PlayerId(Head(player_files))),
                            ZipRead(zip, Head(player_files))))
\* variant: only the first player file name is validated
BadPlayerFile_FirstOnly(player_files) ==
    player_files # << >> /\ ~ValidUuid(PlayerId(player_files[1]))
\* line 164 raises for some player file
BadPlayerFile(player_files) ==
    \E i \in 1..Len(player_files) : ~ValidUuid(PlayerId(player_files[i]))

\* lines 136-168: up to the first await inside process_save_files
LoadZipFile(c, zip) ==
    /\ pc[c] = "idle"
    /\ msg' = [msg EXCEPT ![c] = [type |-> "LOAD_ZIP_FILE", zip |-> zip]]
    /\ LET file_list == NameList(zip)
       IN IF FileListIsNone(file_list)
          THEN Except(c, << >>, << >>, ZipPrefix, ZipEmpty, << >>, app_state, heap)
          ELSE IF file_list = << >>
          THEN Except(c, << >>, << >>, ZipPrefix, IndexError, << >>, app_state, heap)
          ELSE LET save_id == SaveIdOf(file_list)
                   level_sav == LevelSavOf(save_id)
                   player_files == PlayerFiles(file_list, save_id)
               IN IF ~InList(level_sav, file_list)
                  THEN Except(c, << >>, << >>, ZipPrefix, NoLevelSav,
                              AvailableFiles(file_list), app_state, heap)
                  ELSE IF BadPlayerFile(player_files)
                  THEN Except(c, << >>, << >>, ZipPrefix, BadUuid, << >>, app_state, heap)
                  ELSE Commit(c, "ingest_zip", << >>,
                              << [op |-> "process_save_files",
                                  save_id |-> save_id,
                                  level_sav_data |-> ZipRead(zip, level_sav),
                                  player_data |-> PlayerData(zip, player_files, << >>)] >>,
                              "none", app_state, heap, None, NoData, 0)

\* lines 167-183
ZipIngested(c) ==
    /\ pc[c] = "ingest_zip"
    /\ UNCHANGED msg
    /\ \E okE \in BOOLEAN :
        IF okE
        THEN LET o == NewObj
                 args == calls[c][1]
                 h == IngestBundle(args.save_id, args.level_sav_data, args.player_data)
                 hp == [heap EXCEPT ![o] = h]
                 as == [save_file |-> o, players |-> GetPlayers(h)]
                 dt == [name |-> hp[as.save_file].name, size |-> hp[as.save_file].size]
                 cl == Append(calls[c], Returned("process_save_files"))
             IN Progress(c, out[c], ZipDoneText, "zip_cb", cl, as, hp, None, dt, ZipPrefix)
        ELSE Except(c, out[c], Append(calls[c], Failed("process_save_files")),
                    ZipPrefix, EngineError, << >>, app_state, heap)

\* variant: the summary goes out under the single-file type
ZipSendSummary_CopyPaste(c) ==
    /\ pc[c] = "zip_cb"
    /\ UNCHANGED msg
    /\ Send(c, out[c], "LOAD_SAVE_FILE", data[c], "zip_sent", calls[c],
            app_state, heap, None, data[c], ZipPrefix)
\* lines 185-186
ZipSendSummary(c) ==
    /\ pc[c] = "zip_cb"
    /\ UNCHANGED msg
    /\ Send(c, out[c], "LOAD_ZIP_FILE", data[c], "zip_sent", calls[c],
            app_state, heap, None, data[c], ZipPrefix)

\* lines 188-190
ZipSendPlayers(c) ==
    /\ pc[c] = "zip_sent"
    /\ UNCHANGED msg
    /\ \E okJ \in BOOLEAN :
        IF okJ
        THEN Send(c, out[c], "GET_PLAYERS", [players |-> JsonableEncoder(app_state.players)],
                  "done", calls[c], app_state, heap, None, data[c], ZipPrefix)
        ELSE Except(c, out[c], calls[c], ZipPrefix, EncodeError, << >>, app_state, heap)

(* --------------------------- specification ---------------------------- *)
\* The connection's task is back in its receive loop.  The step only
\* forgets the record of the finished invocation (msg, out, calls, result,
\* wrote are kept for it alone), so it is taken before any other step.
Return(c) ==
    /\ pc[c] = "done"
    /\ pc' = [pc EXCEPT ![c] = "idle"]
    /\ msg' = [msg EXCEPT ![c] = NoMsg]
    /\ out' = [out EXCEPT ![c] = << >>]
    /\ calls' = [calls EXCEPT ![c] = << >>]
    /\ result' = [result EXCEPT ![c] = "none"]
    /\ wrote' = [wrote EXCEPT ![c] = FALSE]
    /\ UNCHANGED <<app_state, heap, save_file, data, nprog>>

Next ==
    \/ \E c \in Conns, bytes \in SaveInputs : LoadSaveFile(c, bytes)
    \/ \E c \in Conns : LoadIngested(c)
    \/ \E c \in Conns : LoadSendSummary(c)
    \/ \E c \in Conns : LoadSendPlayers(c)
    \/ \E c \in Editors, zip \in ZipInputs : LoadZipFile(c, zip)
    \/ \E c \in Editors : ZipIngested(c)
    \/ \E c \in Editors : ZipSendSummary(c)
    \/ \E c \in Editors : ZipSendPlayers(c)
    \/ \E c \in Editors, mp \in Patches, mpl \in Patches : UpdateSaveFile(c, mp, mpl)
    \/ \E c \in Editors : UpdatePalsDone(c)
    \/ \E c \in Editors : UpdatePlayersDone(c)
    \/ \E c \in Editors : UpdateSendPlayers(c)
    \/ \E c \in Editors : DownloadSaveFile(c)
    \/ \E c \in Editors : DownloadSav(c)
    \/ \E c \in Editors : DownloadSend(c)
    \/ \E c \in Conns : EngineProgress(c)
    \/ \E c \in Conns : Return(c)

Spec == Init /\ [][Next]_vars

\* the steps by which a started handler continues: the event loop resumes
\* every coroutine whose awaited call has completed
Resume(c) ==
    \/ LoadIngested(c) \/ LoadSendSummary(c) \/ LoadSendPlayers(c)
    \/ ZipIngested(c) \/ ZipSendSummary(c) \/ ZipSendPlayers(c)
    \/ UpdatePalsDone(c) \/ UpdatePlayersDone(c) \/ UpdateSendPlayers(c)
    \/ DownloadSav(c) \/ DownloadSend(c)
    \/ EngineProgress(c) \/ Return(c)

\* one connection served alone: its handlers never wait for another
\* connection, there is no lock or queue between them
NextAlone ==
    \/ \E c \in Editors, bytes \in SaveInputs : LoadSaveFile(c, bytes)
    \/ \E c \in Editors, zip \in ZipInputs : LoadZipFile(c, zip)
    \/ \E c \in Editors, mp \in Patches, mpl \in Patches : UpdateSaveFile(c, mp, mpl)
    \/ \E c \in Editors : DownloadSaveFile(c)
    \/ \E c \in Editors : Resume(c)

\* every awaited engine call and envelope write completes, so the event
\* loop resumes the suspended handler
Fairness == \A c \in Editors : WF_vars(Resume(c))

SpecAlone == Init /\ [][NextAlone]_vars

FairSpec == SpecAlone /\ Fairness

TypeOK ==
    /\ app_state.save_file \in Objs \cup {None}
    /\ \A c \in Conns : save_file[c] \in Objs \cup {None}
    /\ \A c \in Conns : nprog[c] \in 0..MaxProgress
    /\ \A c \in Conns : result[c] \in {"none", "ok", "error", "raised"}

(* ------------------------ reading the envelopes ----------------------- *)
Types(o) == [i \in 1..Len(o) |-> o[i].type]
\* the envelopes whose write succeeded: what the connection observes
Observed(o) == SelectSeq(o, LAMBDA e : e.ok)
SuccessTypes == {"LOAD_SAVE_FILE", "LOAD_ZIP_FILE", "UPDATE_SAVE_FILE", "DOWNLOAD_SAVE_FILE"}
IsTerminal(e) == e.type \in SuccessTypes \cup {"ERROR"}
IsError(e) == e.type = "ERROR"
IsLoad(m) == m.type \in {"LOAD_SAVE_FILE", "LOAD_ZIP_FILE"}
HasCall(cl, entry) == \E i \in 1..Len(cl) : cl[i] = entry
\* the invocation of c has finished with an ERROR envelope written
EndedInError(c) ==
    pc[c] = "done" /\ result[c] = "error" /\ IsError(out[c][Len(out[c])])
\* the invocation of c has finished without entering its except clause
Succeeded(c) == pc[c] = "done" /\ result[c] = "ok"

(* ------------------------------- C1 ----------------------------------- *)
\* C1: in every invocation the connection observes at most one terminal
\* envelope (ERROR or the success envelope of the message's type); in
\* particular no ERROR follows a success envelope of the same invocation.
C1_AtMostOneTerminal ==
    \A c \in Conns : Len(SelectSeq(Observed(out[c]), IsTerminal)) <= 1

(* ------------------------------- C2 ----------------------------------- *)
\* C2: an update or download received while Session State holds no save
\* handle sends exactly one envelope, an ERROR, calls no Save Engine
\* operation and leaves Session State as it was.
C2_NoSaveLoaded ==
    [][\A c \in Conns :
          ( /\ pc[c] = "idle" /\ pc'[c] # "idle"
            /\ msg'[c].type \in {"UPDATE_SAVE_FILE", "DOWNLOAD_SAVE_FILE"}
            /\ app_state.save_file = None )
          => /\ pc'[c] = "done"
             /\ Types(out'[c]) = <<"ERROR">>
             /\ calls'[c] = << >>
             /\ app_state' = app_state
             /\ heap' = heap]_vars

C2_Witness ==
    \E c \in Conns :
        /\ pc[c] = "done" /\ msg[c].type = "UPDATE_SAVE_FILE"
        /\ msg[c].modified_pals # 0
        /\ app_state.save_file = None
        /\ Types(out[c]) = <<"ERROR">>
        /\ out[c][1].data.text = NoSaveLoaded

(* ------------------------------- C3 ----------------------------------- *)
\* C3: a load that ends with an ERROR envelope has not changed Session
\* State (save handle, its content, the stored listing).
C3_FailedLoadKeepsSession ==
    \A c \in Conns : (EndedInError(c) /\ IsLoad(msg[c])) => ~wrote[c]

(* ------------------------------- C4 ----------------------------------- *)
\* C4: handler bodies exclude each other over Session State: at most one
\* connection is inside a handler, and a handler's local save_file is the
\* session's handle for as long as the handler runs.
C4_HandlersExclusive ==
    /\ Cardinality({c \in Conns : pc[c] \notin {"idle", "done"}}) <= 1
    /\ \A c \in Conns : save_file[c] # None => save_file[c] = app_state.save_file

(* ------------------------------- C5 ----------------------------------- *)
\* C5: within an invocation no PROGRESS_MESSAGE is sent after a terminal
\* envelope, and the progress envelopes are on the connection in the order
\* of the ws_callback calls.
C5_ProgressBeforeTerminal ==
    \A c \in Conns :
        /\ \A i, j \in 1..Len(out[c]) :
              (i < j /\ IsTerminal(out[c][i])) => out[c][j].type # "PROGRESS_MESSAGE"
        /\ LET prog == SelectSeq(out[c], LAMBDA e : e.type = "PROGRESS_MESSAGE")
           IN \A k \in 1..Len(prog) : prog[k].data.n = k

C5_Witness ==
    \E c \in Conns :
        /\ Succeeded(c)
        /\ Types(out[c]) = <<"PROGRESS_MESSAGE", "PROGRESS_MESSAGE", "DOWNLOAD_SAVE_FILE">>
        /\ out[c][1].data.text = "Compressing GVAS to sav"
        /\ out[c][2].data.text = "Encoding sav file to base64"

(* ------------------------------- C6 ----------------------------------- *)
\* the envelopes are progress messages followed by exactly t1, t2
EndsWithPair(o, t1, t2) ==
    /\ Len(o) >= 2
    /\ o[Len(o) - 1].type = t1
    /\ o[Len(o)].type = t2
    /\ \A i \in 1..(Len(o) - 2) : o[i].type = "PROGRESS_MESSAGE"
Summary(h) == [name |-> h.name, size |-> h.size]
\* the handle a successful load of message m puts into the session
Loaded(m, cl) ==
    IF m.type = "LOAD_SAVE_FILE" THEN IngestSingle(m.bytes)
    ELSE IngestBundle(cl[1].save_id, cl[1].level_sav_data, cl[1].player_data)

C7_EmptyArchiveRejected ==
    \A c \in Conns :
        (pc[c] = "done" /\ msg[c].type = "LOAD_ZIP_FILE" /\ msg[c].zip = << >>) =>
            /\ Types(out[c]) = <<"ERROR">>
            /\ out[c][1].data.text = ZipEmpty
            /\ calls[c] = << >>
            /\ ~wrote[c]

(* ------------------------------- C8 ----------------------------------- *)
\* the archive of message m lists no "<root_id>/Level.sav"
LacksLevelSav(m) ==
    /\ m.type = "LOAD_ZIP_FILE"
    /\ m.zip # << >>
    /\ \A i \in 1..Len(m.zip) :
          m.zip[i].name # FirstSegment(m.zip[1].name) \o <<Slash>> \o LevelSavName

\* C8: a non-empty archive without "<root_id>/Level.sav" ends with a
\* single ERROR envelope whose message shows every entry of the listing;
\* bundle ingestion is not called and Session State is unchanged.
C8_MissingLevelSav ==
    \A c \in Conns :
        (pc[c] = "done" /\ LacksLevelSav(msg[c])) =>
            /\ Types(out[c]) = <<"ERROR">>
            /\ \A i \in 1..Len(msg[c].zip) :
                  InList(msg[c].zip[i].name, out[c][1].data.files)
            /\ calls[c] = << >>
            /\ ~wrote[c]

C8_Witness ==
    \E c \in Conns :
        /\ pc[c] = "done" /\ LacksLevelSav(msg[c])
        /\ app_state.save_file # None
        /\ out[c][1].data.text = NoLevelSav
        /\ out[c][1].data.files = <<PlayerPath(Bogus)>>

(* ------------------------------- C9 ----------------------------------- *)
\* the archive of message m has an entry "<root_id>/Players/....sav" whose
\* file name without extension is not a UUID
HasBadPlayerEntry(m) ==
    /\ m.type = "LOAD_ZIP_FILE"
    /\ m.zip # << >>
    /\ \E i \in 1..Len(m.zip) :
          /\ StartsWith(m.zip[i].name,
                        FirstSegment(m.zip[1].name) \o <<Slash>> \o PlayersDir \o <<Slash>>)
          /\ EndsWith(m.zip[i].name, SavExt)
          /\ ~ValidUuid(SplitExtStem(Basename(m.zip[i].name)))

\* C9: a bundle with a player entry whose name is not a UUID, wherever the
\* entry stands, ends with a single ERROR envelope; bundle ingestion is
\* not called and Session State is unchanged.
C9_BadPlayerRejectsBundle ==
    \A c \in Conns :
        (pc[c] # "idle" /\ HasBadPlayerEntry(msg[c])) =>
            /\ pc[c] = "done"
            /\ Types(out[c]) = <<"ERROR">>
            /\ calls[c] = << >>
            /\ ~wrote[c]

C9_Witness ==
    \E c \in Conns :
        /\ pc[c] = "done" /\ HasBadPlayerEntry(msg[c])
        /\ Len(msg[c].zip) = 3
        /\ msg[c].zip[1].name = LevelPath
        /\ msg[c].zip[2].name = PlayerPath(Uuid1)
        /\ msg[c].zip[3].name = PlayerPath(Bogus)
        /\ out[c][1].data.text = BadUuid

(* ------------------------------- C10 ---------------------------------- *)
IndexOf(cl, entry) == CHOOSE i \in 1..Len(cl) : cl[i] = entry

\* C10: an update applies the pals patch before the players patch, each
\* only if non-empty, the second only after the first has returned; when
\* the pals patch fails the players patch is not applied, the listing is
\* not recomputed, neither UPDATE_SAVE_FILE nor GET_PLAYERS is sent and
\* exactly one ERROR is.
C10_PalsBeforePlayers ==
    /\ [](\A c \in Conns :
             msg[c].type = "UPDATE_SAVE_FILE" =>
                /\ HasCall(calls[c], Call("update_pals")) => msg[c].modified_pals # 0
                /\ HasCall(calls[c], Call("update_players")) =>
                      /\ msg[c].modified_players # 0
                      /\ msg[c].modified_pals # 0 =>
                            /\ HasCall(calls[c], Returned("update_pals"))
                            /\ IndexOf(calls[c], Returned("update_pals"))
                                  < IndexOf(calls[c], Call("update_players"))
                /\ (pc[c] = "done" /\ msg[c].modified_pals # 0 /\ calls[c] # << >>) =>
                      calls[c][1] = Call("update_pals")
                /\ HasCall(calls[c], Failed("update_pals")) =>
                      /\ pc[c] = "done"
                      /\ ~HasCall(calls[c], Call("update_players"))
                      /\ ~HasCall(calls[c], Call("get_players"))
                      /\ \A i \in 1..Len(out[c]) :
                            out[c][i].type \notin {"UPDATE_SAVE_FILE", "GET_PLAYERS"}
                      /\ Len(SelectSeq(out[c], IsError)) = 1)
    /\ [][\A c \in Conns :
             (pc[c] = "pals" /\ HasCall(calls'[c], Failed("update_pals"))) =>
                app_state'.players = app_state.players]_vars

C10_Witness ==
    \E c \in Conns :
        /\ pc[c] = "done" /\ msg[c].type = "UPDATE_SAVE_FILE"
        /\ msg[c].modified_pals # 0 /\ msg[c].modified_players # 0
        /\ HasCall(calls[c], Failed("update_pals"))
        /\ heap[app_state.save_file].pals # 0
        /\ Types(out[c]) = <<"PROGRESS_MESSAGE", "ERROR">>

(* ------------------------------- C11 ---------------------------------- *)
BothEmpty(m) ==
    m.type = "UPDATE_SAVE_FILE" /\ m.modified_pals = 0 /\ m.modified_players = 0

\* C11: with a save loaded, an update whose patch sets are both empty calls
\* neither patch operation, sends UPDATE_SAVE_FILE then GET_PLAYERS, and
\* the listing it stores and sends is the listing stored before it.
C11_EmptyUpdateKeepsListing ==
    /\ [](\A c \in Conns :
             (Succeeded(c) /\ BothEmpty(msg[c])) =>
                /\ Types(out[c]) = <<"UPDATE_SAVE_FILE", "GET_PLAYERS">>
                /\ calls[c] = <<Call("get_players")>>)
    /\ [][\A c \in Conns :
             (pc[c] = "idle" /\ pc'[c] # "idle" /\ BothEmpty(msg'[c])
                /\ app_state.save_file # None) =>
                    app_state'.players = app_state.players]_vars

(* ------------------------------- C12 ---------------------------------- *)
\* C12: no step of the download handler changes Session State (the save
\* handle, its content, the stored listing), whichever way it ends.
C12_DownloadKeepsSession ==
    /\ [][\A c \in Conns :
             (msg'[c].type = "DOWNLOAD_SAVE_FILE" /\ pc'[c] # pc[c]) =>
                SessionView(app_state', heap') = SessionView(app_state, heap)]_vars
    /\ [](\A c \in Conns :
             (pc[c] = "done" /\ msg[c].type = "DOWNLOAD_SAVE_FILE") => ~wrote[c])

C12_Witness ==
    \E c \in Conns :
        /\ Succeeded(c) /\ msg[c].type = "DOWNLOAD_SAVE_FILE"
        /\ app_state.save_file # None
        /\ heap[app_state.save_file].pals # 0
        /\ out[c][Len(out[c])].type = "DOWNLOAD_SAVE_FILE"

(* ------------------------------- C13 ---------------------------------- *)
\* what the client does with "content": base64 decoding, <<-1>> when the
\* text is not a whole number of 4-character groups
RECURSIVE B64Decode(_)
B64Decode(t) ==
    IF Len(t) = 0 THEN << >>
    ELSE IF Len(t) < 4 THEN << -1 >>
    ELSE LET a == t[1]  b == t[2]  c == t[3]  d == t[4]
         IN IF c = 64 THEN << a * 4 + (b \div 16) >>
            ELSE IF d = 64
            THEN << a * 4 + (b \div 16), (b % 16) * 16 + (c \div 4) >>
            ELSE << a * 4 + (b \div 16), (b % 16) * 16 + (c \div 4),
                    (c % 4) * 64 + d >>
                 \o B64Decode(SubSeq(t, 5, Len(t)))

\* the handle is what a single-artifact load of x left, never updated since
FreshSingle(h) ==
    /\ h.name = LevelSavName /\ h.players = << >>
    /\ h.pals = 0 /\ h.plrs = 0
    /\ h.level \in SaveInputs

\* C13: a download that follows a single-artifact load of x, with no update
\* in between, sends DOWNLOAD_SAVE_FILE named "Level.sav" whose content
\* decodes to exactly the bytes x.
C13_RoundTrip ==
    [][\A c \in Conns :
         (pc[c] = "dl_enc" /\ pc'[c] = "done" /\ result'[c] = "ok"
            /\ FreshSingle(heap[save_file[c]])) =>
               LET e == out'[c][Len(out'[c])]
               IN /\ e.type = "DOWNLOAD_SAVE_FILE"
                  /\ e.data.name = <<"L", "e", "v", "e", "l", ".", "s", "a", "v">>
                  /\ B64Decode(e.data.content) = heap[save_file[c]].level]_vars

C13_Witness ==
    \E c \in Conns :
        /\ Succeeded(c) /\ msg[c].type = "DOWNLOAD_SAVE_FILE"
        /\ app_state.save_file # None
        /\ FreshSingle(heap[app_state.save_file])
        /\ LET e == out[c][Len(out[c])]
           IN /\ e.type = "DOWNLOAD_SAVE_FILE" /\ e.ok
              /\ B64Decode(e.data.content) = <<80, 108>>

(* ------------------------------- C14 ---------------------------------- *)
Running(c) == pc[c] \notin {"idle", "done"}

\* C14: every started handler invocation ends, and when it ends it has
\* passed a terminal envelope (a success envelope or ERROR) to the
\* connection: no invocation ends with no terminal envelope.
C14_EveryMessageAnswered ==
    /\ \A c \in Conns : Running(c) ~> (pc[c] = "done")
    /\ \A c \in Conns : (pc[c] = "done") ~> (pc[c] = "idle")
    /\ [](\A c \in Conns :
             (pc[c] = "done") => \E i \in 1..Len(out[c]) : IsTerminal(out[c][i]))

C14_Witness ==
    \E c \in Conns :
        /\ pc[c] = "done" /\ result[c] = "error"
        /\ HasCall(calls[c], Failed("process_save_files"))
        /\ IsError(out[c][Len(out[c])])

(* ------------------------------- C15 ---------------------------------- *)
\* C15: whatever fails in a handler, a failed write of the ERROR envelope
\* included, the invocation sends exactly one ERROR envelope and returns
\* normally: no exception leaves the handler.
C15_NoExceptionLeaves ==
    \A c \in Conns :
        (pc[c] = "done" /\ result[c] # "ok") =>
            /\ result[c] = "error"
            /\ Len(SelectSeq(out[c], IsError)) = 1

(* ------------------------------- C16 ---------------------------------- *)
\* C16: once the session holds a save handle it holds one in every later
\* state, whatever loads, updates and downloads follow and however they
\* end; an update or download fails with "No save file loaded" only if no
\* handle was held when it began.
C16_HandleStaysLoaded ==
    /\ [][app_state.save_file # None => app_state'.save_file # None]_vars
    /\ [][\A c \in Conns :
             (pc[c] = "idle" /\ pc'[c] = "done"
                /\ out'[c][Len(out'[c])].data.text = NoSaveLoaded) =>
                   app_state.save_file = None]_vars

C16_Witness ==
    \E c \in Conns :
        /\ pc[c] = "done" /\ IsLoad(msg[c]) /\ result[c] = "error"
        /\ HasCall(calls[c], Failed("process_save_file"))
        /\ app_state.save_file # None

(* ------------------------------- C17 ---------------------------------- *)
Quiescent == \A c \in Conns : pc[c] \in {"idle", "done"}

\* C17: whenever no handler is executing, the stored listing is the one the
\* Save Engine derives from the session's save handle, also after an
\* update that ended in ERROR with part of its patches applied.
C17_ListingMatchesHandle ==
    (Quiescent /\ app_state.save_file # None) =>
        app_state.players = GetPlayers(heap[app_state.save_file])

(* ------------------------------- C18 ---------------------------------- *)
\* C18: in a successful load the summary of LOAD_SAVE_FILE / LOAD_ZIP_FILE
\* and the listing of the GET_PLAYERS that follows both describe the save
\* ingested from this invocation's payload, whatever another connection
\* loads in between.
C18_LoadReportsOwnSave ==
    \A c \in Conns :
        (Succeeded(c) /\ IsLoad(msg[c])) =>
            LET own == Loaded(msg[c], calls[c])
                n == Len(out[c])
            IN /\ out[c][n - 1].data = Summary(own)
               /\ out[c][n].data.players = JsonableEncoder(GetPlayers(own))

(* ------------------------------- C19 ---------------------------------- *)
\* C19: the listing an update stores is that of the session's current save
\* handle, also when another connection's load replaced the handle while
\* the update was suspended in a patch application.
C19_UpdateStoresCurrentListing ==
    [][\A c \in Conns :
         (pc[c] # "upd_sent" /\ pc'[c] = "upd_sent") =>
            app_state'.players = GetPlayers(heap'[app_state'.save_file])]_vars

(* ------------------------------- C20 ---------------------------------- *)
\* the entries of archive zip that match "<root_id>/Players/*.sav"
PlayerEntries(zip) ==
    SelectSeq(zip,
              LAMBDA e : /\ StartsWith(e.name, FirstSegment(zip[1].name) \o <<Slash>>
                                                   \o PlayersDir \o <<Slash>>)
                         /\ EndsWith(e.name, SavExt))
\* the archive of message m passes validation
PassesValidation(m) ==
    /\ m.type = "LOAD_ZIP_FILE"
    /\ m.zip # << >>
    /\ ~LacksLevelSav(m)
    /\ ~HasBadPlayerEntry(m)
IsIngestCall(e) == e.op = "process_save_files" /\ "save_id" \in DOMAIN e

\* C20: for a bundle that passes validation, bundle ingestion is called
\* exactly once, with the first path segment of the first entry as root
\* id, the content of "<root_id>/Level.sav" as primary blob, and one keyed
\* blob per entry matching "<root_id>/Players/*.sav", in listing order,
\* keyed by the UUID of its file name: none is dropped or overwritten.
C20_BundleIngestedWhole ==
    \A c \in Conns :
        (pc[c] # "idle" /\ PassesValidation(msg[c])) =>
            LET zip == msg[c].zip
                root == FirstSegment(zip[1].name)
                pe == PlayerEntries(zip)
                call == calls[c][1]
            IN /\ Len(SelectSeq(calls[c], IsIngestCall)) = 1
               /\ IsIngestCall(call)
               /\ call.save_id = root
               /\ \E i \in 1..Len(zip) :
                     /\ zip[i].name = root \o <<Slash>> \o LevelSavName
                     /\ zip[i].body = call.level_sav_data
               /\ Len(call.player_data) = Len(pe)
               /\ \A i \in 1..Len(pe) :
                     /\ call.player_data[i].key = UUID(SplitExtStem(Basename(pe[i].name)))
                     /\ call.player_data[i].body = pe[i].body
=============================================================================
